---- MODULE Spec2Model ----
(***************************************************************************)
(* Model of the Cloud Logging data source backend, pkg/plugin/plugin.go:   *)
(* the two request handlers of CloudLoggingDatasource, QueryData (with the *)
(* per-query pipeline query) and CallResource, against a provider client   *)
(* (cloudlogging.API) whose answers are nondeterministic inputs.           *)
(* SpecClient serves QueryData with the cloudlogging.Client as the client  *)
(* (its ListLogs drains the pages of the logging service up to the limit), *)
(* and SpecFrontend is the frontend DataSource of datasource.ts looking up *)
(* the GCE default project from concurrent calls.                          *)
(*                                                                         *)
(* Conventions.                                                            *)
(*  - A Go error is a tuple of message parts, outermost first: <<>> is the *)
(*    nil error, <<"permission denied">> a provider error and              *)
(*    <<"query: ", "permission denied">> that error wrapped by             *)
(*    fmt.Errorf("query: %w", err).                                        *)
(*  - A Go string the code inspects character by character (a resource     *)
(*    path, an element of a list that is JSON-encoded) is a tuple of       *)
(*    one-character strings; a string the code only passes along (refId,   *)
(*    projectId, insert id, ...) is a TLA+ string.  Bytes written to a     *)
(*    response body are a TLA+ string.                                     *)
(*  - A []string is a record [nil, elems]: NilSlice is the nil slice, and  *)
(*    Slice(s) the non-nil slice holding the tuple s.                      *)
(***************************************************************************)
EXTENDS Integers, Sequences, FiniteSets, TLC

VARIABLES
    handler,    \* the handler being served: "none", "QueryData", "CallResource"
    pc,         \* "idle", "loop" (inside QueryData's for loop), "returned"
    queries,    \* req.Queries of the QueryData request being served
    idx,        \* 1-based position of QueryData's loop over req.Queries
    responses,  \* response.Responses: refId -> backend.DataResponse
    resReq,     \* the backend.CallResourceRequest being served
    provider,   \* what the provider would answer to each discovery call
    sendErr,    \* the error the sender's Send returns for this request
    trace,      \* what the handler did, in order: provider calls, warnings, sends
    result,     \* what the handler returned
    jsonData,   \* the frontend DataSource's instanceSettings.jsonData
    promises,   \* the frontend's calls of getDefaultProject / ensureGCEDefaultProject
    getResource \* the getResource(`gceDefaultProject`) requests the frontend made

\* The state of the backend handlers and of the frontend DataSource.
backendVars == <<handler, pc, queries, idx, responses, resReq, provider, sendErr,
                 trace, result>>
frontendVars == <<jsonData, promises, getResource>>

vars == <<handler, pc, queries, idx, responses, resReq, provider, sendErr, trace,
          result, jsonData, promises, getResource>>

\* ------------------------------------------------------------------ bounds

\* Most calls of the frontend in flight at once.
MaxCallers == 2
\* Longest batch of queries in one QueryData request.
MaxQueries == 2
\* Most log entries the provider returns from one ListLogs call.
MaxLogs == 2
\* Most project ids the provider returns from one ListProjects call.
MaxProjects == 2

\* ------------------------------------------------------------ Go strings

NoError == <<>>
NilSlice == [nil |-> TRUE, elems |-> <<>>]
Slice(s) == [nil |-> FALSE, elems |-> s]

RECURSIVE Str(_)
\* string(chars): the TLA+ string spelled by a tuple of one-character strings.
Str(cs) == IF cs = <<>> THEN "" ELSE Head(cs) \o Str(Tail(cs))

UpperCase == <<"A","B","C","D","E","F","G","H","I","J","K","L","M",
               "N","O","P","Q","R","S","T","U","V","W","X","Y","Z">>
LowerCase == <<"a","b","c","d","e","f","g","h","i","j","k","l","m",
               "n","o","p","q","r","s","t","u","v","w","x","y","z">>

\* The upper-case letters, and the lower-case letter of each.
UpperLetters == {UpperCase[k] : k \in DOMAIN UpperCase}
LowerOfUpper ==
    [c \in UpperLetters |->
        LowerCase[CHOOSE k \in DOMAIN UpperCase : UpperCase[k] = c]]

\* unicode.ToLower on one (ASCII) character.
ToLowerChar(c) == IF c \in UpperLetters THEN LowerOfUpper[c] ELSE c

\* strings.ToLower(s).
ToLower(s) == [k \in DOMAIN s |-> ToLowerChar(s[k])]

\* ---------------------------------------------------------- encoding/json

\* Characters that have no one-character TLA+ string are named: "U+0001" and
\* "U+001F" are the control characters U+0001 and U+001F, "U+2028" and
\* "U+2029" the line and paragraph separators, and "0xFF" is a byte that is
\* no valid UTF-8.

\* What encoding/json writes for one character inside a string: quote and
\* backslash are backslash-escaped; line feed, carriage return and tab are
\* written \n, \r and \t (and, since Go 1.22, form feed \f); any other
\* control character below U+0020 is written as its \u00XX escape; since
\* json.Marshal escapes HTML, so are <, > and &; U+2028 and U+2029 are written
\* \u2028 and \u2029; and invalid UTF-8 is written \ufffd.
EscapeChar(c) ==
    CASE c = "\"" -> "\\\""
      [] c = "\\" -> "\\\\"
      [] c = "\n" -> "\\n"
      [] c = "\r" -> "\\r"
      [] c = "\t" -> "\\t"
      [] c = "\f" -> "\\f"
      [] c = "U+0001" -> "\\u0001"
      [] c = "U+001F" -> "\\u001f"
      [] c = "<"  -> "\\u003c"
      [] c = ">"  -> "\\u003e"
      [] c = "&"  -> "\\u0026"
      [] c = "U+2028" -> "\\u2028"
      [] c = "U+2029" -> "\\u2029"
      [] c = "0xFF" -> "\\ufffd"
      [] OTHER    -> c

RECURSIVE EscapeString(_)
EscapeString(cs) ==
    IF cs = <<>> THEN "" ELSE EscapeChar(Head(cs)) \o EscapeString(Tail(cs))

\* json.Marshal(s) for a string s.
MarshalString(cs) == "\"" \o EscapeString(cs) \o "\""

RECURSIVE MarshalElements(_)
MarshalElements(list) ==
    IF list = <<>> THEN ""
    ELSE IF Len(list) = 1 THEN MarshalString(Head(list))
    ELSE MarshalString(Head(list)) \o "," \o MarshalElements(Tail(list))

\* json.Marshal(list) for a []string: null for the nil slice, otherwise the
\* elements in order between brackets.  It never fails on a []string.
MarshalStrings(list) ==
    IF list.nil THEN [body |-> "null", err |-> NoError]
    ELSE [body |-> "[" \o MarshalElements(list.elems) \o "]", err |-> NoError]

\* ------------------------------------------------------------------ maps

EmptyMap == <<>>
\* The map f with the entries of g written over it.
Merge(f, g) ==
    [k \in DOMAIN f \cup DOMAIN g |-> IF k \in DOMAIN g THEN g[k] ELSE f[k]]

\* ------------------------------------------------------------------ time

\* A time.Time is [unix, nsec, zone]: seconds since the epoch, nanoseconds
\* within the second, and the offset of its location in seconds east of UTC.
\* t.Format(time.RFC3339) writes the wall clock of t in its zone to the second
\* and the zone offset in hours and minutes; the string is modelled by the
\* two numbers it spells, [wall, zoneMin].
FormatRFC3339(t) ==
    [wall |-> t.unix + t.zone,
     zoneMin |-> IF t.zone >= 0 THEN t.zone \div 60 ELSE -((-t.zone) \div 60)]

\* ----------------------------------------------------- the query's JSON

\* query.JSON is modelled by what encoding/json finds in it:
\*   [kind |-> "empty"]    no bytes at all (a DataQuery built without JSON)
\*   [kind |-> "invalid"]  bytes that are no JSON document (`Not JSON`)
\*   [kind |-> "null"]     the document null
\*   [kind |-> "other"]    a document that is no object and not null
\*   [kind |-> "object"]   an object; members lists its members in the
\*                         order of the document, each [name, t, v]: the
\*                         member's name (a character tuple), its JSON type
\*                         and, for a string, its value
\* (every value carries a members field, empty unless an object).
JsonDoc(kind, members) == [kind |-> kind, members |-> members]
JString(v) == [t |-> "string", v |-> v]
JNumber(v) == [t |-> "number", v |-> v]
JNull == [t |-> "null", v |-> ""]
\* The member name: val of an object.
Member(name, val) == [name |-> name, t |-> val.t, v |-> val.v]

\* The zero queryModel.
ZeroQueryModel == [QueryText |-> "", ProjectID |-> ""]

NameQueryText == <<"q","u","e","r","y","T","e","x","t">>
NameProjectId == <<"p","r","o","j","e","c","t","I","d">>

\* The JSON member names of queryModel's fields (its struct tags).
QueryModelTags == [QueryText |-> NameQueryText, ProjectID |-> NameProjectId]

\* encoding/json matches a member name with a field's name exactly or, failing
\* that, ignoring letter case (as the two fields of queryModel do not fold to
\* one name, the two matches pick the same field).
EqualFold(name, tag) ==
    /\ Len(name) = Len(tag)
    /\ \A i \in DOMAIN name : ToLowerChar(name[i]) = ToLowerChar(tag[i])

RECURSIVE AssignMembers(_, _, _)
\* The value of the string field tagged tag, now cur, once the members have
\* been decoded in order: a string member that matches the field is stored
\* in it, a later one over an earlier one; a null member and a member of
\* another type leave it alone.
AssignMembers(members, tag, cur) ==
    IF members = <<>> THEN cur
    ELSE LET m == Head(members)
         IN  AssignMembers(Tail(members), tag,
                           IF EqualFold(m.name, tag) /\ m.t = "string"
                           THEN m.v ELSE cur)

\* The value json.Unmarshal stores in the string field tagged tag.
FieldAfterUnmarshal(doc, tag) == AssignMembers(doc.members, tag, "")

\* json.Unmarshal(query.JSON, &q) with q the zero queryModel: the error it
\* returns and q afterwards.  Members that are no field of queryModel are
\* ignored, a null member leaves its field alone, and a member of another
\* type than string is an UnmarshalTypeError.
Unmarshal(doc) ==
    CASE doc.kind = "empty" ->
            [err |-> <<"unexpected end of JSON input">>, q |-> ZeroQueryModel]
      [] doc.kind = "invalid" ->
            [err |-> <<"invalid character">>, q |-> ZeroQueryModel]
      [] doc.kind = "null" ->
            [err |-> NoError, q |-> ZeroQueryModel]
      [] doc.kind = "other" ->
            [err |-> <<"json: cannot unmarshal into Go value of type plugin.queryModel">>,
             q |-> ZeroQueryModel]
      [] OTHER ->
            [err |-> IF \E f \in DOMAIN QueryModelTags, i \in DOMAIN doc.members :
                           /\ EqualFold(doc.members[i].name, QueryModelTags[f])
                           /\ doc.members[i].t \notin {"string", "null"}
                     THEN <<"json: cannot unmarshal into Go struct field of type string">>
                     ELSE NoError,
             q |-> [QueryText |-> FieldAfterUnmarshal(doc, QueryModelTags.QueryText),
                    ProjectID |-> FieldAfterUnmarshal(doc, QueryModelTags.ProjectID)]]

\* ClientRequest without its Limit member: the field keeps its zero value.
ClientRequestWithoutLimit(dq, q) ==
    [ProjectID |-> q.ProjectID,
     Filter    |-> q.QueryText,
     Limit     |-> 0,
     TimeRange |-> [From |-> FormatRFC3339(dq.TimeRange.From),
                    To   |-> FormatRFC3339(dq.TimeRange.To)]]

\* The cloudlogging.Query that query builds for the provider.
ClientRequest(dq, q) ==
    [ProjectID |-> q.ProjectID,
     Filter    |-> q.QueryText,
     Limit     |-> dq.MaxDataPoints,
     TimeRange |-> [From |-> FormatRFC3339(dq.TimeRange.From),
                    To   |-> FormatRFC3339(dq.TimeRange.To)]]

\* ------------------------------------------------------- the log fetcher

\* What the logging service holds for one request is
\*   [pages, failAt, err]
\* the pages it would serve, in order, each a tuple of entries, and the
\* number of the page request that fails with err (0 when none does).

RECURSIVE Drain(_, _, _, _)
\* The fetcher about to request page n with the entries got so far: it stops
\* without another request once the entries reach cap, gives up the entries
\* it has when the request fails, and ends at the last page.
Drain(avail, n, cap, got) ==
    IF Len(got) >= cap
    THEN [logs |-> SubSeq(got, 1, cap), err |-> NoError]
    ELSE IF avail.failAt = n
    THEN [logs |-> <<>>, err |-> <<"listing logs: ">> \o avail.err]
    ELSE IF n > Len(avail.pages)
    THEN [logs |-> got, err |-> NoError]
    ELSE Drain(avail, n + 1, cap, got \o avail.pages[n])

\* cloudlogging.Client.ListLogs(ctx, req) when the service holds avail: the
\* entries up to req.Limit, or an error.  A limit that is not positive stands
\* for the default of the query engine, dflt.
ListLogs(req, avail, dflt) ==
    Drain(avail, 1, IF req.Limit > 0 THEN req.Limit ELSE dflt, <<>>)

\* ------------------------------------------------------------ log entries

\* A loggingpb.LogEntry is
\*   [InsertId, Timestamp, ReceiveTimestamp, Severity, Resource, Labels,
\*    Trace, Payload]
\* with Severity and Trace character tuples, Resource a record
\* [present, Type, Labels], Labels a map, and Payload one of
\*   [kind |-> "text",  text |-> s,  decodes |-> TRUE]
\*   [kind |-> "json",  text |-> s,  decodes |-> TRUE]   (s: the structure's JSON text)
\*   [kind |-> "proto", text |-> s,  decodes |-> b]      (s: the message's JSON text)
\*   [kind |-> "none",  text |-> "", decodes |-> FALSE]  (no payload set)

\* cloudlogging.GetLogEntryMessage(entry): the body string and an error.
\* A text payload is the body verbatim, a structured payload its serialized
\* form, a proto payload its decoded form unless decoding fails; an entry
\* without a payload of these kinds is an error.
GetLogEntryMessage(entry) ==
    CASE entry.Payload.kind = "text" ->
            [body |-> entry.Payload.text, err |-> NoError]
      [] entry.Payload.kind = "json" ->
            [body |-> entry.Payload.text, err |-> NoError]
      [] entry.Payload.kind = "proto" /\ entry.Payload.decodes ->
            [body |-> entry.Payload.text, err |-> NoError]
      [] entry.Payload.kind = "proto" /\ ~entry.Payload.decodes ->
            [body |-> "", err |-> <<"proto: cannot unmarshal payload">>]
      [] OTHER ->
            [body |-> "", err |-> <<"unknown payload type">>]

RECURSIVE LastSegment(_)
\* The text after the last "/" of a character tuple (all of it without one).
LastSegment(cs) ==
    IF \A k \in DOMAIN cs : cs[k] # "/" THEN cs
    ELSE LastSegment(SubSeq(cs, 1 + (CHOOSE k \in DOMAIN cs : cs[k] = "/"), Len(cs)))

\* The labels.<key> entries of a label map, the key quoted.
QuotedLabels(m) ==
    LET KeyOf(k) == "labels.\"" \o k \o "\""
    IN  [q \in {KeyOf(k) : k \in DOMAIN m} |->
            m[CHOOSE k \in DOMAIN m : KeyOf(k) = q]]

\* cloudlogging.GetLogLabels(entry): the label map of the content field.
GetLogLabels(entry) ==
    LET base  == [k \in {"id", "level"} |->
                    IF k = "id" THEN entry.InsertId
                    ELSE Str(ToLower(entry.Severity))]
        res   == IF entry.Resource.present
                 THEN Merge([k \in {"resource.type"} |-> entry.Resource.Type],
                            QuotedLabels(entry.Resource.Labels))
                 ELSE EmptyMap
        text  == IF entry.Payload.kind = "text"
                 THEN [k \in {"textPayload"} |-> entry.Payload.text]
                 ELSE EmptyMap
        trc   == IF entry.Trace # <<>>
                 THEN [k \in {"trace", "traceId"} |->
                         IF k = "trace" THEN Str(entry.Trace)
                         ELSE Str(LastSegment(entry.Trace))]
                 ELSE EmptyMap
    IN  Merge(Merge(Merge(Merge(base, res), QuotedLabels(entry.Labels)), text), trc)

\* ----------------------------------------------------------- the trace

\* One entry of the trace records one thing the handler did, in order.
\* A call of the provider client, with its arguments and what it returned.
CallEvent(op, arg, ret) == [ev |-> "call", op |-> op, arg |-> arg, ret |-> ret]
\* A warning written to log.DefaultLogger, with the error it reports.
WarnEvent(msg, err) == [ev |-> "warn", op |-> msg, arg |-> <<>>, ret |-> [err |-> err]]
\* A call of sender.Send, with the response sent and the error Send returned.
SendEvent(resp, err) == [ev |-> "send", op |-> "Send", arg |-> <<resp>>, ret |-> [err |-> err]]

EventsOf(tr, ev) == SelectSeq(tr, LAMBDA e : e.ev = ev)
CallsOf(tr, op) == SelectSeq(tr, LAMBDA e : e.ev = "call" /\ e.op = op)

\* ------------------------------------------------------------------ query

\* data.VisTypeLogs
VisTypeLogs == "logs"

\* data.NewField(name, labels, values)
NewField(name, labels, values) ==
    [Name |-> name, Labels |-> labels, Values |-> values]

\* LogFrame with the time field taken from the receipt timestamp.
LogFrameOfReceipt(entry, body) ==
    [Name   |-> entry.InsertId,
     Fields |-> << NewField("time", EmptyMap, <<entry.ReceiveTimestamp>>),
                   NewField("content", GetLogLabels(entry), <<body>>) >>,
     Meta   |-> [PreferredVisualization |-> VisTypeLogs]]

\* The frame query builds for one log entry whose message is body.
LogFrame(entry, body) ==
    [Name   |-> entry.InsertId,
     Fields |-> << NewField("time", EmptyMap, <<entry.Timestamp>>),
                   NewField("content", GetLogLabels(entry), <<body>>) >>,
     Meta   |-> [PreferredVisualization |-> VisTypeLogs]]

RECURSIVE BuildFramesUntilFailure(_)
\* BuildFrames with break in place of continue: the first entry whose message
\* cannot be got ends the loop.
BuildFramesUntilFailure(logs) ==
    IF logs = <<>> THEN [frames |-> <<>>, events |-> <<>>]
    ELSE LET msg  == GetLogEntryMessage(Head(logs))
             rest == BuildFramesUntilFailure(Tail(logs))
         IN  IF msg.err # NoError
             THEN [frames |-> <<>>,
                   events |-> <<WarnEvent("failed getting log message", msg.err)>>]
             ELSE [frames |-> <<LogFrame(Head(logs), msg.body)>> \o rest.frames,
                   events |-> rest.events]

RECURSIVE BuildFrames(_)
\* query's loop over the entries ListLogs returned: the frames it appends, in
\* order, and the warnings it logs.  An entry whose message cannot be got is
\* skipped with a warning.
BuildFrames(logs) ==
    IF logs = <<>> THEN [frames |-> <<>>, events |-> <<>>]
    ELSE LET msg  == GetLogEntryMessage(Head(logs))
             rest == BuildFrames(Tail(logs))
         IN  IF msg.err # NoError
             THEN [frames |-> rest.frames,
                   events |-> <<WarnEvent("failed getting log message", msg.err)>>
                              \o rest.events]
             ELSE [frames |-> <<LogFrame(Head(logs), msg.body)>> \o rest.frames,
                   events |-> rest.events]

\* fmt.Errorf("query: %w", err)
WrapQueryError(err) == <<"query: ">> \o err

\* query without the return that follows a failed ListLogs: the error is set
\* and the entries that came with it are still turned into frames.
queryWithPartialFrames(dq, outcome) ==
    LET um  == Unmarshal(dq.JSON)
        req == ClientRequest(dq, um.q)
        call == CallEvent("ListLogs", <<req>>, outcome)
        built == BuildFrames(outcome.logs)
    IN  IF um.err # NoError
        THEN [response |-> [Error |-> um.err, Frames |-> <<>>], events |-> <<>>]
        ELSE [response |-> [Error |-> IF outcome.err # NoError
                                      THEN WrapQueryError(outcome.err)
                                      ELSE NoError,
                            Frames |-> built.frames],
              events |-> <<call>> \o built.events]

\* query without the return that follows a failed json.Unmarshal: the provider
\* is called with the zero queryModel and frames are appended to a response
\* that carries the unmarshal error.
queryWithoutEarlyReturn(dq, outcome) ==
    LET um  == Unmarshal(dq.JSON)
        req == ClientRequest(dq, um.q)
        call == CallEvent("ListLogs", <<req>>, outcome)
        built == BuildFrames(outcome.logs)
    IN  IF outcome.err # NoError
        THEN [response |-> [Error |-> WrapQueryError(outcome.err), Frames |-> <<>>],
              events |-> <<call>>]
        ELSE [response |-> [Error |-> um.err, Frames |-> built.frames],
              events |-> <<call>> \o built.events]

\* d.query(ctx, pCtx, dq) for the backend.DataQuery dq, when the provider
\* answers a ListLogs call with outcome = [logs, err]: the backend.DataResponse
\* it returns and what it did.  The provider is not called when dq.JSON does
\* not unmarshal.
query(dq, outcome) ==
    LET um  == Unmarshal(dq.JSON)
        req == ClientRequest(dq, um.q)
        call == CallEvent("ListLogs", <<req>>, outcome)
        built == BuildFrames(outcome.logs)
    IN  IF um.err # NoError
        THEN [response |-> [Error |-> um.err, Frames |-> <<>>], events |-> <<>>]
        ELSE IF outcome.err # NoError
        THEN [response |-> [Error |-> WrapQueryError(outcome.err), Frames |-> <<>>],
              events |-> <<call>>]
        ELSE [response |-> [Error |-> NoError, Frames |-> built.frames],
              events |-> <<call>> \o built.events]

RECURSIVE QueryData(_, _)
\* d.QueryData(ctx, req) as a function of req.Queries and of the provider's
\* answers to the ListLogs calls, in the order they are made: the
\* response.Responses map, what the handler did, and the error it returns.  A
\* later query with the refId of an earlier one overwrites its entry.
QueryData(batch, outcomes) ==
    IF batch = <<>>
    THEN [responses |-> EmptyMap, events |-> <<>>, err |-> NoError]
    ELSE LET q     == Head(batch)
             calls == Unmarshal(q.JSON).err = NoError
             res   == query(q, IF calls THEN Head(outcomes)
                               ELSE [logs |-> <<>>, err |-> NoError])
             rest  == QueryData(Tail(batch),
                                IF calls THEN Tail(outcomes) ELSE outcomes)
         IN  [responses |-> Merge([r \in {q.RefID} |-> res.response],
                                  rest.responses),
              events |-> res.events \o rest.events,
              err |-> NoError]

\* ----------------------------------------------------------- CallResource

StatusOK == 200
StatusNotFound == 404
StatusInternalServerError == 500

PathGCEDefaultProject ==
    <<"g","c","e","D","e","f","a","u","l","t","P","r","o","j","e","c","t">>
PathProjects == <<"p","r","o","j","e","c","t","s">>

\* backend.CallResourceResponse
Response(status, body) == [Status |-> status, Body |-> body]

\* The branch of CallResource taken when json.Marshal has returned m: the
\* response it sends.
MarshalledResponse(m) ==
    IF m.err # NoError
    THEN Response(StatusInternalServerError, "Unable to create response")
    ELSE Response(StatusOK, m.body)

\* IsProjects by strings.HasPrefix on the lowered path and "project".
IsProjectsByPrefix(resource) ==
    /\ Len(resource) >= 7
    /\ SubSeq(ToLower(resource), 1, 7) = SubSeq(PathProjects, 1, 7)

\* IsProjects without strings.ToLower.
IsProjectsInThisCase(resource) == resource = PathProjects

\* The test of CallResource's second branch: the path is projects, in any
\* letter case.
IsProjects(resource) == ToLower(resource) = PathProjects

\* CallResource answering a failed lookup or listing with the text of the
\* error, as http.Error(w, err.Error(), 500) would.
CallResourceWithErrorText(req, api, sErr) ==
    LET resource == req.Path
        gce == api.GCEDefaultProject
        lp  == api.ListProjects
        Sent(resp) == <<SendEvent(resp, sErr)>>
    IN  IF resource = PathGCEDefaultProject
        THEN [events |->
                <<CallEvent("GCEDefaultProject", <<[scope |-> ""]>>, gce)>>
                \o (IF gce.err # NoError
                    THEN Sent(Response(StatusInternalServerError, Str(gce.err)))
                    ELSE Sent(MarshalledResponse(
                            [body |-> MarshalString(gce.proj), err |-> NoError]))),
              ret |-> sErr]
        ELSE IF ~IsProjects(resource)
        THEN [events |-> Sent(Response(StatusNotFound, "No such path")),
              ret |-> sErr]
        ELSE [events |->
                <<CallEvent("ListProjects", <<>>, lp)>>
                \o (IF lp.err # NoError
                    THEN Sent(Response(StatusInternalServerError, Str(lp.err)))
                    ELSE Sent(MarshalledResponse(MarshalStrings(lp.list)))),
              ret |-> sErr]

\* CallResource without the return of its not-found branch: the final Send
\* follows, with the body still nil.
CallResourceFallingThrough(req, api, sErr) ==
    LET resource == req.Path
        gce == api.GCEDefaultProject
        lp  == api.ListProjects
        Sent(resp) == <<SendEvent(resp, sErr)>>
    IN  IF resource = PathGCEDefaultProject
        THEN [events |->
                <<CallEvent("GCEDefaultProject", <<[scope |-> ""]>>, gce)>>
                \o (IF gce.err # NoError
                    THEN <<WarnEvent("problem getting GCE default project", gce.err)>>
                    ELSE <<>>)
                \o Sent(MarshalledResponse(
                        [body |-> MarshalString(gce.proj), err |-> NoError])),
              ret |-> sErr]
        ELSE IF ~IsProjects(resource)
        THEN [events |-> Sent(Response(StatusNotFound, "No such path"))
                         \o Sent(Response(StatusOK, "")),
              ret |-> sErr]
        ELSE [events |->
                <<CallEvent("ListProjects", <<>>, lp)>>
                \o (IF lp.err # NoError
                    THEN <<WarnEvent("problem listing projects", lp.err)>>
                    ELSE <<>>)
                \o Sent(MarshalledResponse(MarshalStrings(lp.list))),
              ret |-> sErr]

\* d.CallResource(ctx, req, sender) when the provider would answer api to the
\* discovery calls (api.GCEDefaultProject = [proj, err] for
\* utils.GCEDefaultProject, api.ListProjects = [list, err] for
\* d.client.ListProjects, and so on for the calls the code never makes) and
\* sender.Send answers sErr: what the handler does, in order, and the error it
\* returns.  req is [Path, Params]; the code reads req.Path only.
CallResource(req, api, sErr) ==
    LET resource == req.Path
        gce == api.GCEDefaultProject
        lp  == api.ListProjects
        Sent(resp) == <<SendEvent(resp, sErr)>>
    IN  IF resource = PathGCEDefaultProject
        THEN [events |->
                <<CallEvent("GCEDefaultProject", <<[scope |-> ""]>>, gce)>>
                \o (IF gce.err # NoError
                    THEN <<WarnEvent("problem getting GCE default project", gce.err)>>
                    ELSE <<>>)
                \o Sent(MarshalledResponse(
                        [body |-> MarshalString(gce.proj), err |-> NoError])),
              ret |-> sErr]
        ELSE IF ~IsProjects(resource)
        THEN [events |-> Sent(Response(StatusNotFound, "No such path")),
              ret |-> sErr]
        ELSE [events |->
                <<CallEvent("ListProjects", <<>>, lp)>>
                \o (IF lp.err # NoError
                    THEN <<WarnEvent("problem listing projects", lp.err)>>
                    ELSE <<>>)
                \o Sent(MarshalledResponse(MarshalStrings(lp.list))),
              ret |-> sErr]

\* ----------------------------------------------------------------- inputs

RECURSIVE SeqsUpTo(_, _)
\* The tuples of at most n elements of S.
SeqsUpTo(S, n) ==
    IF n = 0 THEN {<<>>}
    ELSE LET shorter == SeqsUpTo(S, n - 1)
         IN  shorter \cup {Append(s, x) : s \in shorter, x \in S}

\* The tuples of at most n elements of S without a repeated element.
DistinctSeqsUpTo(S, n) ==
    {s \in SeqsUpTo(S, n) : \A a, b \in DOMAIN s : a # b => s[a] # s[b]}

Time(unix, nsec, zone) == [unix |-> unix, nsec |-> nsec, zone |-> zone]

\* The DataQuery of TestQueryData_GCPError and TestQueryData_SingleLog.
QueryTesting ==
    [RefID |-> "A",
     JSON  |-> JsonDoc("object",
                 <<Member(NameProjectId, JString("testing")),
                   Member(NameQueryText, JString("resource.type = \"testing\""))>>),
     MaxDataPoints |-> 20,
     TimeRange |-> [From |-> Time(3600, 0, 0), To |-> Time(7200, 0, 0)]]

\* A well-formed query without projectId, with members queryModel lacks, no
\* limit, and a time range that ends before it starts, in a zone east of UTC.
QueryNoProject ==
    [RefID |-> "B",
     JSON  |-> JsonDoc("object",
                 <<Member(NameQueryText, JString("severity>=ERROR")),
                   Member(<<"b","u","c","k","e","t","I","d">>, JString("_Default"))>>),
     MaxDataPoints |-> 0,
     TimeRange |-> [From |-> Time(7200, 500, 19800), To |-> Time(3600, 999, 19800)]]

\* The DataQuery of TestQueryData_InvalidJSON.
QueryNotJSON ==
    [RefID |-> "C",
     JSON  |-> JsonDoc("invalid", <<>>),
     MaxDataPoints |-> 0,
     TimeRange |-> [From |-> Time(0, 0, 0), To |-> Time(0, 0, 0)]]

\* The DataQuery of TestQueryData: no JSON at all.  It shares its refId with
\* QueryTesting.
QueryEmpty ==
    [RefID |-> "A",
     JSON  |-> JsonDoc("empty", <<>>),
     MaxDataPoints |-> 0,
     TimeRange |-> [From |-> Time(0, 0, 0), To |-> Time(0, 0, 0)]]

\* A query whose projectId is a number.
QueryTypeError ==
    [RefID |-> "D",
     JSON  |-> JsonDoc("object",
                 <<Member(NameProjectId, JNumber("5")),
                   Member(NameQueryText, JString("f"))>>),
     MaxDataPoints |-> 20,
     TimeRange |-> [From |-> Time(3600, 0, 0), To |-> Time(7200, 0, 0)]]

\* A well-formed query with limit 1 whose time range is in a location whose
\* offset from UTC is not whole minutes (Africa/Monrovia before 1972,
\* -00:44:30), and ends on the last nanosecond of a second.  Its JSON spells
\* the member names in other letter cases and repeats one:
\*   {"PROJECTID": "first", "ProjectId": "testing", "projectId": null,
\*    "QueryText": ""}
QueryLocalMeanTime ==
    [RefID |-> "E",
     JSON  |-> JsonDoc("object",
                 <<Member(<<"P","R","O","J","E","C","T","I","D">>, JString("first")),
                   Member(<<"P","r","o","j","e","c","t","I","d">>, JString("testing")),
                   Member(NameProjectId, JNull),
                   Member(<<"Q","u","e","r","y","T","e","x","t">>, JString(""))>>),
     MaxDataPoints |-> 1,
     TimeRange |-> [From |-> Time(0, 0, -2670), To |-> Time(3600, 999999999, -2670)]]

QuerySet ==
    {QueryTesting, QueryNoProject, QueryNotJSON, QueryEmpty, QueryTypeError,
     QueryLocalMeanTime}

\* The batches of one QueryData request.
Batches == SeqsUpTo(QuerySet, MaxQueries)

NoResource == [present |-> FALSE, Type |-> "", Labels |-> EmptyMap]

\* The log entry of TestQueryData_SingleLog, received after LogJson but
\* stamped before it.
LogText ==
    [InsertId |-> "b6f39be2",
     Timestamp |-> 349373,
     ReceiveTimestamp |-> 349999,
     Severity |-> <<"I","N","F","O">>,
     Resource |-> [present |-> TRUE, Type |-> "gce_instance", Labels |-> EmptyMap],
     Labels |-> [k \in {"instance_id", "custom_label"} |->
                   IF k = "instance_id" THEN "unique" ELSE "custom_value"],
     Trace |-> <<"p","/","x","/","t","/","c","0","e">>,
     Payload |-> [kind |-> "text", decodes |-> TRUE,
                  text |-> "Full log message from this GCE instance"]]

\* An entry with a structured payload, no resource, no labels, no trace.
LogJson ==
    [InsertId |-> "a1",
     Timestamp |-> 349400,
     ReceiveTimestamp |-> 349390,
     Severity |-> <<"E","R","R","O","R">>,
     Resource |-> NoResource,
     Labels |-> EmptyMap,
     Trace |-> <<>>,
     Payload |-> [kind |-> "json", decodes |-> TRUE, text |-> "{\"k\":\"v\"}"]]

\* An entry whose proto payload does not decode.
LogUndecodable ==
    [InsertId |-> "x9",
     Timestamp |-> 349380,
     ReceiveTimestamp |-> 349381,
     Severity |-> <<"D","E","F","A","U","L","T">>,
     Resource |-> NoResource,
     Labels |-> EmptyMap,
     Trace |-> <<>>,
     Payload |-> [kind |-> "proto", decodes |-> FALSE, text |-> ""]]

LogEntries == {LogText, LogJson, LogUndecodable}

ErrRequest == <<"something was wrong with the request">>
ErrCanceled == <<"context canceled">>

\* What the provider may answer to one ListLogs call: entries and no error,
\* an error and no entries, or an error beside the entries read so far.
ListLogsOutcomes ==
    {[logs |-> l, err |-> NoError] : l \in DistinctSeqsUpTo(LogEntries, MaxLogs)}
    \cup {[logs |-> <<>>, err |-> ErrRequest],
          [logs |-> <<LogJson>>, err |-> ErrCanceled]}

\* What the logging service may hold for one request: nothing, one page, one
\* page of two entries, two pages, a first request that fails, and a second
\* request that fails (the context is cancelled while fetching).
Availabilities ==
    {[pages |-> <<>>, failAt |-> 0, err |-> NoError],
     [pages |-> <<<<LogText>>>>, failAt |-> 0, err |-> NoError],
     [pages |-> <<<<LogJson, LogText>>>>, failAt |-> 0, err |-> NoError],
     [pages |-> <<<<LogText>>, <<LogJson, LogUndecodable>>>>, failAt |-> 0, err |-> NoError],
     [pages |-> <<<<LogUndecodable, LogJson>>, <<LogText>>>>, failAt |-> 0, err |-> NoError],
     [pages |-> <<>>, failAt |-> 1, err |-> ErrRequest],
     [pages |-> <<<<LogText>>>>, failAt |-> 2, err |-> ErrCanceled]}

\* The limits the query engine may apply to a request without one.
EngineDefaults == {1, 1000}

\* Resource paths: the two the code names, in several letter cases, the two
\* the tests and the frontend name beside them, and unknown ones.
ResourcePaths ==
    {PathGCEDefaultProject,
     PathProjects,
     <<"P","r","o","j","e","c","t","s">>,
     <<"P","R","O","J","E","C","T","S">>,
     <<"g","c","e","d","e","f","a","u","l","t","p","r","o","j","e","c","t">>,
     <<"l","o","g","b","u","c","k","e","t","s">>,
     <<"l","o","g","B","u","c","k","e","t","s">>,
     <<"l","o","g","v","i","e","w","s">>,
     <<"l","o","g","V","i","e","w","s">>,
     <<"u","n","k","n","o","w","n">>,
     <<"p","r","o","j","e","c","t">>,
     <<>>}

PathLogBuckets == <<"l","o","g","b","u","c","k","e","t","s">>
PathLogViews == <<"l","o","g","v","i","e","w","s">>

\* The paths the frontend passes to getResource for the buckets of a project
\* and for the views of a bucket.
PathFrontendLogBuckets == <<"l","o","g","B","u","c","k","e","t","s">>
PathFrontendLogViews == <<"l","o","g","V","i","e","w","s">>

\* The query parameters of the request URL.
ResourceParams ==
    {EmptyMap,
     [k \in {"ProjectId"} |-> "test-project"],
     [k \in {"ProjectId"} |-> ""],
     [k \in {"ProjectId", "BucketId"} |->
        IF k = "ProjectId" THEN "test-project" ELSE "test-bucket"],
     [k \in {"ProjectId", "BucketId"} |->
        IF k = "ProjectId" THEN "test-project" ELSE ""]}

\* req.URL's query parameter name: its value, "" when it is absent
\* (url.Values.Get).
Param(req, name) == IF name \in DOMAIN req.Params THEN req.Params[name] ELSE ""

ResourceRequests == [Path : ResourcePaths, Params : ResourceParams]

Project1 == <<"p","r","o","j","e","c","t","1">>
Project2 == <<"p","r","o","j","e","c","t","2">>
\* An id with characters that JSON must escape.
ProjectToEscape == <<"a","\"","<","\n","\t","U+0001","U+2028","0xFF">>
\* The ids of TestCallResource and one that JSON must escape.  Project2 sorts
\* after Project1 and the provider may list it first, or twice.
ProjectIds == {Project2, Project1, ProjectToEscape}

ErrPermission == <<"permission denied">>

\* What the provider may answer to one ListProjects call.
ListProjectsOutcomes ==
    {[list |-> Slice(l), err |-> NoError] : l \in SeqsUpTo(ProjectIds, MaxProjects)}
    \cup {[list |-> NilSlice, err |-> NoError],
          [list |-> NilSlice, err |-> ErrPermission],
          [list |-> Slice(<<Project1>>), err |-> ErrPermission]}

\* What the provider may answer to one ListProjectBuckets call and to one
\* ListProjectBucketViews call (the lists of TestCallResource, or an error).
ListBucketsOutcomes ==
    {[list |-> Slice(<<<<"b","u","c","k","e","t","1">>, <<"b","u","c","k","e","t","2">>>>),
      err |-> NoError],
     [list |-> NilSlice, err |-> <<"invalid project">>]}
ListViewsOutcomes ==
    {[list |-> Slice(<<<<"v","i","e","w","1">>, <<"v","i","e","w","2">>>>),
      err |-> NoError],
     [list |-> NilSlice, err |-> <<"invalid bucket">>]}

\* What utils.GCEDefaultProject may answer.
GCEOutcomes ==
    {[proj |-> Project1, err |-> NoError],
     [proj |-> <<>>, err |-> NoError],
     [proj |-> <<>>, err |-> <<"metadata: not on GCE">>]}

\* What sender.Send may answer.
SendOutcomes == {NoError, <<"send failed">>}

\* What the provider would answer to each discovery call of one request.
Providers ==
    [GCEDefaultProject : GCEOutcomes,
     ListProjects : ListProjectsOutcomes,
     ListProjectBuckets : ListBucketsOutcomes,
     ListProjectBucketViews : ListViewsOutcomes]

NoRequest == [Path |-> <<>>, Params |-> EmptyMap]
NoProvider ==
    [GCEDefaultProject |-> [proj |-> <<>>, err |-> NoError],
     ListProjects |-> [list |-> NilSlice, err |-> NoError],
     ListProjectBuckets |-> [list |-> NilSlice, err |-> NoError],
     ListProjectBucketViews |-> [list |-> NilSlice, err |-> NoError]]

\* The frontend's callers, and a caller that has made no call.
Callers == 1 .. MaxCallers
NoCall == [fn |-> "none", pc |-> "idle", seen |-> "", requested |-> FALSE,
           ret |-> "", threw |-> FALSE]

\* The methods of DataSource that look the default project up.
FrontendMethods ==
    {"getDefaultProject", "ensureGCEDefaultProject", "getGCEDefaultProject"}

\* What the backend may answer to getResource(`gceDefaultProject`): the
\* project id CallResource encodes, which is empty when the lookup found none
\* or failed.
GCEProjectIds == {"", "project1", "project2"}

\* ---------------------------------------------------------------- actions

Init ==
    /\ handler = "none"
    /\ pc = "idle"
    /\ queries = <<>>
    /\ idx = 1
    /\ responses = EmptyMap
    /\ resReq = NoRequest
    /\ provider = NoProvider
    /\ sendErr = NoError
    /\ trace = <<>>
    /\ result = [err |-> NoError]
    /\ jsonData = [authenticationType |-> "gce", defaultProject |-> "",
                   gceDefaultProject |-> ""]
    /\ promises = [c \in Callers |-> NoCall]
    /\ getResource = <<>>

\* QueryData is called with a batch: response := backend.NewQueryDataResponse().
QueryDataStart(batch) ==
    /\ pc = "idle"
    /\ handler' = "QueryData"
    /\ pc' = "loop"
    /\ queries' = batch
    /\ idx' = 1
    /\ responses' = EmptyMap
    /\ trace' = <<>>
    /\ UNCHANGED <<resReq, provider, sendErr, result>>
    /\ UNCHANGED frontendVars

\* QueryDataIter leaving the loop at the first query that has an error.
QueryDataIterUntilError(outcome) ==
    /\ pc = "loop"
    /\ idx <= Len(queries)
    /\ LET q   == queries[idx]
           res == query(q, outcome)
       IN  /\ responses' = Merge(responses, [r \in {q.RefID} |-> res.response])
           /\ trace' = trace \o res.events
           /\ idx' = IF res.response.Error # NoError THEN Len(queries) + 1
                     ELSE idx + 1
    /\ UNCHANGED <<handler, pc, queries, resReq, provider, sendErr, result>>
    /\ UNCHANGED frontendVars

\* One iteration of QueryData's loop: res := d.query(ctx, pCtx, q), with the
\* provider answering outcome, and response.Responses[q.RefID] = res.
QueryDataIter(outcome) ==
    /\ pc = "loop"
    /\ idx <= Len(queries)
    /\ LET q   == queries[idx]
           res == query(q, outcome)
       IN  /\ responses' = Merge(responses, [r \in {q.RefID} |-> res.response])
           /\ trace' = trace \o res.events
    /\ idx' = idx + 1
    /\ UNCHANGED <<handler, pc, queries, resReq, provider, sendErr, result>>
    /\ UNCHANGED frontendVars

\* The loop is over: return response, nil.
QueryDataReturn ==
    /\ pc = "loop"
    /\ idx > Len(queries)
    /\ pc' = "returned"
    /\ result' = [err |-> NoError]
    /\ UNCHANGED <<handler, queries, idx, responses, resReq, provider, sendErr,
                   trace>>
    /\ UNCHANGED frontendVars

\* CallResource is called and runs to its return.
CallResourceRun(req, api, sErr) ==
    /\ pc = "idle"
    /\ handler' = "CallResource"
    /\ pc' = "returned"
    /\ resReq' = req
    /\ provider' = api
    /\ sendErr' = sErr
    /\ LET run == CallResource(req, api, sErr)
       IN  /\ trace' = run.events
           /\ result' = [err |-> run.ret]
    /\ UNCHANGED <<queries, idx, responses>>
    /\ UNCHANGED frontendVars

\* The handler has returned; the data source waits for the next request.  It
\* keeps nothing from the request it served.
NextRequest ==
    /\ pc = "returned"
    /\ handler' = "none"
    /\ pc' = "idle"
    /\ queries' = <<>>
    /\ idx' = 1
    /\ responses' = EmptyMap
    /\ resReq' = NoRequest
    /\ provider' = NoProvider
    /\ sendErr' = NoError
    /\ trace' = <<>>
    /\ result' = [err |-> NoError]
    /\ UNCHANGED frontendVars

\* The frontend.  A call of an async method runs to its first await that has
\* to wait, and goes on when what it waits for is settled; other calls run in
\* between.  A caller's pc is "idle" before its call, "awaiting" while its
\* request is with the backend, "resumed" when ensureGCEDefaultProject is
\* over and getDefaultProject, which awaited it, has yet to go on,
\* "rethrown" when ensureGCEDefaultProject has thrown and the catch of
\* getDefaultProject has yet to run, and "done" when its promise is settled.

\* Caller c calls getDefaultProject(), ensureGCEDefaultProject() or
\* getGCEDefaultProject(); the call runs until it awaits.
\* getGCEDefaultProject always requests the backend resource.  Under gce
\* authentication with no gceDefaultProject stored, ensureGCEDefaultProject
\* requests it and awaits the answer; otherwise it is over without a request,
\* and getDefaultProject, which awaited it, goes on to its return.
FrontendCall(c, fn) ==
    /\ promises[c].pc = "idle"
    /\ LET seen == jsonData.gceDefaultProject
           gce  == jsonData.authenticationType = "gce"
       IN  IF fn = "getGCEDefaultProject" \/ (gce /\ seen = "")
           THEN /\ getResource' = Append(getResource,
                                         [by |-> c, state |-> "pending", value |-> ""])
                /\ promises' = [promises EXCEPT ![c] =
                      [fn |-> fn, pc |-> "awaiting", seen |-> seen,
                       requested |-> TRUE, ret |-> "", threw |-> FALSE]]
           ELSE /\ UNCHANGED getResource
                /\ promises' = [promises EXCEPT ![c] =
                      [fn |-> fn,
                       pc |-> IF fn = "getDefaultProject" /\ gce THEN "resumed"
                              ELSE "done",
                       seen |-> seen, requested |-> FALSE,
                       ret |-> IF fn = "getDefaultProject" /\ ~gce
                               THEN jsonData.defaultProject ELSE "",
                       threw |-> FALSE]]
    /\ UNCHANGED jsonData
    /\ UNCHANGED backendVars

\* The request of caller c is answered v.  getGCEDefaultProject returns v and
\* stores nothing; ensureGCEDefaultProject stores it,
\* jsonData.gceDefaultProject = await this.getGCEDefaultProject(), and is over.
FrontendResolve(c, v) ==
    /\ promises[c].pc = "awaiting"
    /\ jsonData' = IF promises[c].fn = "getGCEDefaultProject" THEN jsonData
                   ELSE [jsonData EXCEPT !.gceDefaultProject = v]
    /\ getResource' = [r \in DOMAIN getResource |->
                         IF getResource[r].by = c
                         THEN [by |-> c, state |-> "resolved", value |-> v]
                         ELSE getResource[r]]
    /\ promises' = [promises EXCEPT
                      ![c].pc = IF promises[c].fn = "getDefaultProject"
                                THEN "resumed" ELSE "done",
                      ![c].ret = IF promises[c].fn = "getGCEDefaultProject"
                                 THEN v ELSE ""]
    /\ UNCHANGED backendVars

\* The request of caller c fails.  getGCEDefaultProject throws;
\* ensureGCEDefaultProject logs and rethrows, which ends a call of it and
\* leaves a call of getDefaultProject, which awaited it, to catch.
FrontendReject(c) ==
    /\ promises[c].pc = "awaiting"
    /\ getResource' = [r \in DOMAIN getResource |->
                         IF getResource[r].by = c
                         THEN [by |-> c, state |-> "rejected", value |-> ""]
                         ELSE getResource[r]]
    /\ promises' = IF promises[c].fn = "getDefaultProject"
                   THEN [promises EXCEPT ![c].pc = "rethrown"]
                   ELSE [promises EXCEPT ![c].pc = "done", ![c].ret = "",
                                         ![c].threw = TRUE]
    /\ UNCHANGED jsonData
    /\ UNCHANGED backendVars

\* getDefaultProject catches what ensureGCEDefaultProject threw: it logs and
\* returns ''.
FrontendCatch(c) ==
    /\ promises[c].pc = "rethrown"
    /\ promises' = [promises EXCEPT ![c].pc = "done", ![c].ret = "",
                                    ![c].threw = FALSE]
    /\ UNCHANGED <<jsonData, getResource>>
    /\ UNCHANGED backendVars

\* getDefaultProject goes on after await this.ensureGCEDefaultProject():
\* return this.instanceSettings.jsonData.gceDefaultProject || "".
FrontendReturn(c) ==
    /\ promises[c].pc = "resumed"
    /\ promises' = [promises EXCEPT ![c].pc = "done",
                                    ![c].ret = jsonData.gceDefaultProject]
    /\ UNCHANGED <<jsonData, getResource>>
    /\ UNCHANGED backendVars

\* The steps of the data source, each with the inputs it draws.  The guard
\* on pc is stated before the inputs are drawn.
QueryDataCalled ==
    pc = "idle" /\ \E batch \in Batches : QueryDataStart(batch)

QueryDataLoop ==
    pc = "loop" /\ \E outcome \in ListLogsOutcomes : QueryDataIter(outcome)

\* One iteration of QueryData's loop with d.client the cloudlogging.Client:
\* the answer to ListLogs is what the fetcher makes of what the service holds.
QueryDataFetch ==
    /\ pc = "loop"
    /\ idx <= Len(queries)
    /\ \E avail \in Availabilities, dflt \in EngineDefaults :
          QueryDataIter(ListLogs(ClientRequest(queries[idx],
                                               Unmarshal(queries[idx].JSON).q),
                                 avail, dflt))

CallResourceCalled ==
    pc = "idle" /\ \E req \in ResourceRequests, api \in Providers,
                       sErr \in SendOutcomes :
                         CallResourceRun(req, api, sErr)

Next ==
    \/ QueryDataCalled
    \/ QueryDataLoop
    \/ QueryDataReturn
    \/ CallResourceCalled
    \/ NextRequest

Spec == Init /\ [][Next]_vars

\* The data source serving QueryData with the cloudlogging.Client as its
\* provider client.
NextClient ==
    \/ QueryDataCalled
    \/ QueryDataFetch
    \/ QueryDataReturn
    \/ NextRequest

SpecClient == Init /\ [][NextClient]_vars

\* The frontend DataSource under gce authentication, its callers running
\* concurrently.
FrontendCalled == \E c \in Callers, fn \in FrontendMethods : FrontendCall(c, fn)
FrontendResolved == \E c \in Callers, v \in GCEProjectIds : FrontendResolve(c, v)
FrontendRejected == \E c \in Callers : FrontendReject(c)
FrontendCaught == \E c \in Callers : FrontendCatch(c)
FrontendReturned == \E c \in Callers : FrontendReturn(c)

NextFrontend ==
    \/ FrontendCalled
    \/ FrontendResolved
    \/ FrontendRejected
    \/ FrontendCaught
    \/ FrontendReturned

SpecFrontend == Init /\ [][NextFrontend]_vars

\* ------------------------------------------------- reading a state

\* A query payload that encoding/json rejects: no JSON document, a document
\* that is no object, or an object whose queryText or projectId is no string.
Malformed(dq) ==
    \/ dq.JSON.kind \in {"empty", "invalid", "other"}
    \/ /\ dq.JSON.kind = "object"
       /\ \E i \in DOMAIN dq.JSON.members :
             /\ \E name \in {NameQueryText, NameProjectId} :
                   /\ Len(dq.JSON.members[i].name) = Len(name)
                   /\ \A j \in DOMAIN name :
                         ToLowerChar(dq.JSON.members[i].name[j]) = ToLowerChar(name[j])
             /\ dq.JSON.members[i].t \notin {"string", "null"}

\* QueryData is being served and has handled the queries before idx.
InQueryData == handler = "QueryData"
QueryDataReturned == handler = "QueryData" /\ pc = "returned"
Handled == 1 .. (idx - 1)

\* The malformed queries among those a batch is drawn from.
MalformedQueries == {dq \in QuerySet : Malformed(dq)}

\* The well-formed queries among the first k.
WellFormedUpTo(k) == {j \in 1 .. k : queries[j] \notin MalformedQueries}

\* The ListLogs calls made so far, in order, and what the provider answered.
ListLogsCalls == CallsOf(trace, "ListLogs")
ListLogsAnswers == [j \in DOMAIN ListLogsCalls |-> ListLogsCalls[j].ret]

\* The ListLogs call made for the well-formed query at position k: calls are
\* made in request order, one for each well-formed query.
CallFor(k) == ListLogsCalls[Cardinality(WellFormedUpTo(k))]

\* No later handled query has overwritten the entry of the query at k.
EntryIsOf(k) == \A j \in Handled : j > k => queries[j].RefID # queries[k].RefID

DistinctRefIDs ==
    \A a, b \in DOMAIN queries : a # b => queries[a].RefID # queries[b].RefID

RemoveAt(s, k) == SubSeq(s, 1, k - 1) \o SubSeq(s, k + 1, Len(s))

\* The value of the last string member of a query's JSON object that is
\* named name in any letter case, "" without one.
MemberOf(dq, name) ==
    LET ms   == dq.JSON.members
        hits == {i \in DOMAIN ms :
                    /\ ms[i].t = "string"
                    /\ Len(ms[i].name) = Len(name)
                    /\ \A j \in DOMAIN name :
                          ToLowerChar(ms[i].name[j]) = ToLowerChar(name[j])}
    IN  IF dq.JSON.kind = "object" /\ hits # {}
        THEN ms[CHOOSE i \in hits : \A j \in hits : j <= i].v
        ELSE ""

\* The queryText and projectId members of each query a batch is drawn from.
MembersOf ==
    [dq \in QuerySet |->
        [QueryText |-> MemberOf(dq, NameQueryText),
         ProjectID |-> MemberOf(dq, NameProjectId)]]

\* CallResource has been served.
CallResourceReturned == handler = "CallResource" /\ pc = "returned"
\* The provider calls it made and the responses it sent, in order.
Calls == EventsOf(trace, "call")
Sends == EventsOf(trace, "send")
\* The response it sent (the first, should there be more).
Sent == Sends[1].arg[1]

\* Two paths are equal ignoring letter case.
SameLetters(a, b) ==
    /\ Len(a) = Len(b)
    /\ \A i \in DOMAIN a : ToLowerChar(a[i]) = ToLowerChar(b[i])

\* The request asks for the log buckets of a project, for the log views of a
\* bucket, with the parameters the path requires.
AsksBuckets(req) == req.Path = PathLogBuckets /\ Param(req, "ProjectId") # ""
AsksViews(req) ==
    /\ req.Path = PathLogViews
    /\ Param(req, "ProjectId") # ""
    /\ Param(req, "BucketId") # ""
\* The request names one of the two paths and lacks a parameter it requires.
LacksParameter(req) ==
    \/ req.Path = PathLogBuckets /\ Param(req, "ProjectId") = ""
    \/ /\ req.Path = PathLogViews
       /\ (Param(req, "ProjectId") = "" \/ Param(req, "BucketId") = "")

\* The entries of a log list whose message decodes, in order.
Decodable(entry) == entry.Payload.kind \in {"text", "json", "proto"} /\ entry.Payload.decodes
DecodableOf(logs) == SelectSeq(logs, Decodable)

\* ------------------------------------------------------------------ claims

\* C1: QueryData returns a nil error and one entry for each refId of the
\* batch, so N entries for N queries with pairwise distinct refIds and none
\* for the empty batch; a query whose JSON payload is malformed gets a non-nil
\* error and no frames, and the ListLogs calls made and the entries of the
\* other queries are those of the same batch without the malformed query.
C1_MalformedQueryIsIsolated ==
    QueryDataReturned =>
        /\ result.err = NoError
        /\ DOMAIN responses = {queries[k].RefID : k \in DOMAIN queries}
        /\ DistinctRefIDs =>
              /\ Cardinality(DOMAIN responses) = Len(queries)
              /\ \A k \in DOMAIN queries : Malformed(queries[k]) =>
                    /\ responses[queries[k].RefID].Error # NoError
                    /\ responses[queries[k].RefID].Frames = <<>>
                    /\ LET without == QueryData(RemoveAt(queries, k), ListLogsAnswers)
                       IN  /\ CallsOf(without.events, "ListLogs") = ListLogsCalls
                           /\ \A j \in DOMAIN queries \ {k} :
                                 responses[queries[j].RefID]
                                   = without.responses[queries[j].RefID]

\* A batch of distinct refIds has returned in which a malformed query came
\* before a well-formed one that got frames.
C1_Witness ==
    /\ QueryDataReturned
    /\ DistinctRefIDs
    /\ \E k, j \in DOMAIN queries :
          /\ k < j
          /\ Malformed(queries[k])
          /\ ~Malformed(queries[j])
          /\ responses[queries[j].RefID].Frames # <<>>


\* C2: when the provider answers a query's ListLogs call with an error,
\* cancellation included and whatever entries came with it, the query's
\* response carries that error wrapped ("query: " before it) and no frame,
\* and ListLogs was called once for the query: the calls made are one for
\* each well-formed query handled, the query's own request among them.
C2_ProviderErrorIsSurfacedOnce ==
    InQueryData =>
        /\ Len(ListLogsCalls) = Cardinality(WellFormedUpTo(idx - 1))
        /\ \A k \in WellFormedUpTo(idx - 1) :
              LET call == CallFor(k)
              IN  (call.ret.err # NoError /\ EntryIsOf(k)) =>
                     /\ call.arg[1].Filter = MembersOf[queries[k]].QueryText
                     /\ responses[queries[k].RefID].Error
                           = <<"query: ">> \o call.ret.err
                     /\ responses[queries[k].RefID].Frames = <<>>

\* A query has been answered after the provider returned an error beside a
\* decodable entry.
C2_Witness ==
    /\ QueryDataReturned
    /\ \E k \in WellFormedUpTo(idx - 1) :
          /\ EntryIsOf(k)
          /\ CallFor(k).ret.err = ErrCanceled
          /\ DecodableOf(CallFor(k).ret.logs) # <<>>

RECURSIVE SkippedIn(_)
\* The entries whose message does not decode among the answers of the
\* ListLogs calls that succeeded.
SkippedIn(calls) ==
    IF calls = <<>> THEN 0
    ELSE (IF Head(calls).ret.err = NoError
          THEN Len(Head(calls).ret.logs) - Len(DecodableOf(Head(calls).ret.logs))
          ELSE 0)
         + SkippedIn(Tail(calls))

\* C3: when a query's fetch succeeds, its frames are one for each entry whose
\* message decodes: named by the entry's insert id, with exactly the fields
\* time, holding the entry's timestamp (not its receipt timestamp), and then
\* content, holding the body and carrying the label map as the field's
\* labels, each of one value, and with the preferred visualization logs.  An
\* entry whose message does not decode gives no frame and one warning.
C3_OneFramePerDecodedEntry ==
    InQueryData =>
        /\ Len(ListLogsCalls) = Cardinality(WellFormedUpTo(idx - 1))
        /\ Len(EventsOf(trace, "warn")) = SkippedIn(ListLogsCalls)
        /\ \A k \in WellFormedUpTo(idx - 1) :
              LET call   == CallFor(k)
                  dec    == DecodableOf(call.ret.logs)
                  frames == responses[queries[k].RefID].Frames
              IN  (call.ret.err = NoError /\ EntryIsOf(k)) =>
                     /\ Len(frames) = Len(dec)
                     /\ \A i \in DOMAIN dec :
                           /\ frames[i].Name = dec[i].InsertId
                           /\ Len(frames[i].Fields) = 2
                           /\ frames[i].Fields[1].Name = "time"
                           /\ frames[i].Fields[1].Values = <<dec[i].Timestamp>>
                           /\ frames[i].Fields[2].Name = "content"
                           /\ frames[i].Fields[2].Values = <<dec[i].Payload.text>>
                           /\ frames[i].Fields[2].Labels = GetLogLabels(dec[i])
                           /\ frames[i].Fields[2].Labels["id"] = dec[i].InsertId
                           /\ frames[i].Meta.PreferredVisualization = "logs"

\* A fetch has returned an entry that decodes and one that does not, and the
\* query has its one frame and the log its one warning.
C3_Witness ==
    /\ QueryDataReturned
    /\ Len(EventsOf(trace, "warn")) = 1
    /\ \E k \in WellFormedUpTo(idx - 1) :
          /\ EntryIsOf(k)
          /\ CallFor(k).ret.err = NoError
          /\ Len(CallFor(k).ret.logs) = 2
          /\ Len(responses[queries[k].RefID].Frames) = 1

\* C4: the frame names of a query are the insert ids of the provider's
\* entries, in the provider's order, without the entries that do not decode;
\* an entry that does not decode neither ends the loop nor sets the error.
C4_FramesKeepProviderOrder ==
    InQueryData =>
        /\ Len(ListLogsCalls) = Cardinality(WellFormedUpTo(idx - 1))
        /\ \A k \in WellFormedUpTo(idx - 1) :
              LET call   == CallFor(k)
                  dec    == DecodableOf(call.ret.logs)
                  frames == responses[queries[k].RefID].Frames
              IN  (call.ret.err = NoError /\ EntryIsOf(k)) =>
                     /\ [i \in DOMAIN frames |-> frames[i].Name]
                           = [i \in DOMAIN dec |-> dec[i].InsertId]
                     /\ responses[queries[k].RefID].Error = NoError

\* The provider has returned an entry that does not decode before one that
\* does, and the later one has its frame.
C4_Witness ==
    /\ QueryDataReturned
    /\ \E k \in WellFormedUpTo(idx - 1) :
          /\ EntryIsOf(k)
          /\ CallFor(k).ret.err = NoError
          /\ Len(CallFor(k).ret.logs) = 2
          /\ ~Decodable(CallFor(k).ret.logs[1])
          /\ Decodable(CallFor(k).ret.logs[2])
          /\ responses[queries[k].RefID].Frames # <<>>

\* C5: ListLogs is called once for each well-formed query, in request order,
\* with the request compiled from that query's projectId, queryText,
\* maxDataPoints and time range; the entry under a refId is the response to
\* the query that wrote it, a function of that query and of the answer to its
\* own call; and every query of the batch is handled, whatever errors the
\* queries before it had.
C5_QueriesAreIndependent ==
    InQueryData =>
        /\ Len(ListLogsCalls) = Cardinality(WellFormedUpTo(idx - 1))
        /\ DOMAIN responses = {queries[k].RefID : k \in Handled}
        /\ pc = "returned" => Handled = DOMAIN queries
        /\ \A k \in WellFormedUpTo(idx - 1) :
              LET call == CallFor(k) IN
              /\ call.arg =
                    << [ProjectID |-> MembersOf[queries[k]].ProjectID,
                        Filter    |-> MembersOf[queries[k]].QueryText,
                        Limit     |-> queries[k].MaxDataPoints,
                        TimeRange |->
                          [From |-> FormatRFC3339(queries[k].TimeRange.From),
                           To   |-> FormatRFC3339(queries[k].TimeRange.To)]] >>
              /\ EntryIsOf(k) =>
                    responses[queries[k].RefID]
                      = query(queries[k], call.ret).response
        /\ \A k \in Handled \ WellFormedUpTo(idx - 1) :
              EntryIsOf(k) =>
                 /\ responses[queries[k].RefID].Error # NoError
                 /\ responses[queries[k].RefID].Frames = <<>>

\* Two well-formed queries with different requests have been answered: the
\* first with the provider's error, the second with frames.
C5_Witness ==
    /\ QueryDataReturned
    /\ Len(queries) = 2
    /\ WellFormedUpTo(2) = {1, 2}
    /\ queries[1].RefID # queries[2].RefID
    /\ ListLogsCalls[1].arg # ListLogsCalls[2].arg
    /\ responses[queries[1].RefID].Error # NoError
    /\ responses[queries[2].RefID].Frames # <<>>

\* http.StatusBadGateway, the status TestCallResource expects of a failed
\* provider call.
StatusBadGateway == 502

\* C6: on projects, logbuckets and logviews (with the parameters they
\* require), a failed provider call is answered with status 502 and the fixed
\* JSON error body of the path, never with status 200.
C6_ProviderFailureIsBadGateway ==
    CallResourceReturned =>
        /\ (resReq.Path = PathProjects /\ provider.ListProjects.err # NoError) =>
              /\ Len(Sends) = 1
              /\ Sent.Status = StatusBadGateway
              /\ Sent.Body = "{\"error\": \"Failed to list projects. Please check your permissions and authentication configuration.\"}"
        /\ (AsksBuckets(resReq) /\ provider.ListProjectBuckets.err # NoError) =>
              /\ Len(Sends) = 1
              /\ Sent.Status = StatusBadGateway
              /\ Sent.Body = "{\"error\": \"Failed to list log buckets. Please check your project ID and permissions.\"}"
        /\ (AsksViews(resReq) /\ provider.ListProjectBucketViews.err # NoError) =>
              /\ Len(Sends) = 1
              /\ Sent.Status = StatusBadGateway
              /\ Sent.Body = "{\"error\": \"Failed to list log views. Please check your bucket ID and permissions.\"}"

\* C7: on logbuckets with a ProjectId, ListProjectBuckets is called once with
\* that project id and, when it succeeds, the response is status 200 with the
\* JSON-encoded list; on logviews with a ProjectId and a BucketId,
\* ListProjectBucketViews is called once with those ids and, when it
\* succeeds, the response is status 200 with the JSON-encoded list.
C7_BucketsAndViewsAreListed ==
    CallResourceReturned =>
        /\ AsksBuckets(resReq) =>
              /\ Len(Calls) = 1
              /\ Calls[1].op = "ListProjectBuckets"
              /\ Calls[1].arg = <<[projectId |-> Param(resReq, "ProjectId")]>>
              /\ provider.ListProjectBuckets.err = NoError =>
                    /\ Len(Sends) = 1
                    /\ Sent.Status = 200
                    /\ Sent.Body = MarshalStrings(provider.ListProjectBuckets.list).body
        /\ AsksViews(resReq) =>
              /\ Len(Calls) = 1
              /\ Calls[1].op = "ListProjectBucketViews"
              /\ Calls[1].arg = <<[projectId |-> Param(resReq, "ProjectId"),
                                   bucketId  |-> Param(resReq, "BucketId")]>>
              /\ provider.ListProjectBucketViews.err = NoError =>
                    /\ Len(Sends) = 1
                    /\ Sent.Status = 200
                    /\ Sent.Body = MarshalStrings(provider.ListProjectBucketViews.list).body

\* The same request with the parameters its path requires.
WithParameters(req) ==
    [Path |-> req.Path,
     Params |-> [k \in {"ProjectId", "BucketId"} |->
                   IF k = "ProjectId" THEN "test-project" ELSE "test-bucket"]]

\* The provider failing every discovery call.
FailingProvider ==
    [GCEDefaultProject |-> [proj |-> <<>>, err |-> ErrPermission],
     ListProjects |-> [list |-> NilSlice, err |-> ErrPermission],
     ListProjectBuckets |-> [list |-> NilSlice, err |-> ErrPermission],
     ListProjectBucketViews |-> [list |-> NilSlice, err |-> ErrPermission]]

\* C8: on logbuckets without a ProjectId, and on logviews without a ProjectId
\* or without a BucketId (absent or empty), no provider call is made and the
\* response is a client-input error: a 4xx status, never 200, and not the
\* response a failed provider call gets, which is status 502 and is what the
\* handler answers to the same path with its parameters when the provider
\* fails.
C8_MissingParameterIsClientError ==
    (CallResourceReturned /\ LacksParameter(resReq)) =>
        /\ Calls = <<>>
        /\ Len(Sends) = 1
        /\ Sent.Status \in 400 .. 499
        /\ Sent.Status # 200
        /\ Sent.Status # StatusBadGateway
        /\ LET failed == CallResource(WithParameters(resReq), FailingProvider, sendErr)
           IN  Sent # EventsOf(failed.events, "send")[1].arg[1]

\* C9: a path that is none of projects (in any letter case),
\* gceDefaultProject, logbuckets and logviews is answered with status 404 and
\* the plain body No such path, without a provider call and without a warning.
C9_OtherPathIsNotFound ==
    ( /\ CallResourceReturned
      /\ ~SameLetters(resReq.Path, PathProjects)
      /\ resReq.Path \notin {PathGCEDefaultProject, PathLogBuckets, PathLogViews} ) =>
        /\ Calls = <<>>
        /\ Len(trace) = 1
        /\ Len(Sends) = 1
        /\ Sent.Status = 404
        /\ Sent.Body = "No such path"

\* The path unknown of TestCallResource has been answered, and so has a path
\* that differs from projects by its last letter only.
C9_Witness ==
    /\ CallResourceReturned
    /\ resReq.Path \in {<<"u","n","k","n","o","w","n">>, <<"p","r","o","j","e","c","t">>}
    /\ Sent.Status = 404
    /\ provider.ListProjects.err = NoError

\* C10: on the path projects, in any letter case, when ListProjects succeeds
\* it has been called exactly once and nothing else has, and the response is
\* status 200 with the JSON encoding of the list it returned, elements in the
\* order returned, repeated ones included: null for the nil list, and
\* ["project1","project2"] for the list of TestCallResource.
C10_ProjectsAreListedVerbatim ==
    ( /\ CallResourceReturned
      /\ SameLetters(resReq.Path, PathProjects)
      /\ provider.ListProjects.err = NoError ) =>
        /\ Len(Calls) = 1
        /\ Calls[1].op = "ListProjects"
        /\ Calls[1].ret = provider.ListProjects
        /\ Len(Sends) = 1
        /\ Sent.Status = 200
        /\ Sent.Body = MarshalStrings(provider.ListProjects.list).body
        /\ provider.ListProjects.list = NilSlice => Sent.Body = "null"
        /\ provider.ListProjects.list = Slice(<<>>) => Sent.Body = "[]"
        /\ provider.ListProjects.list = Slice(<<Project1, Project2>>) =>
              Sent.Body = "[\"project1\",\"project2\"]"
        /\ provider.ListProjects.list = Slice(<<Project2, Project2>>) =>
              Sent.Body = "[\"project2\",\"project2\"]"
        /\ provider.ListProjects.list = Slice(<<Project2, Project1>>) =>
              Sent.Body = "[\"project2\",\"project1\"]"
        /\ provider.ListProjects.list = Slice(<<ProjectToEscape>>) =>
              Sent.Body = "[\"a\\\"\\u003c\\n\\t\\u0001\\u2028\\ufffd\"]"

\* The path PROJECTS has been answered with a list that is not sorted.
C10_Witness ==
    /\ CallResourceReturned
    /\ resReq.Path = <<"P","R","O","J","E","C","T","S">>
    /\ provider.ListProjects = [list |-> Slice(<<Project2, Project1>>), err |-> NoError]
    /\ Sent.Status = 200

\* Errors a provider call may fail with.
ErrorValues ==
    {ErrPermission, ErrRequest, ErrCanceled, <<"invalid project">>,
     <<"invalid bucket">>, <<"metadata: not on GCE">>,
     <<"rpc error: ", "code = DeadlineExceeded">>}

\* C11: when a discovery call of the provider fails, the response CallResource
\* sends is the one it sends to the same request with the same provider
\* failing with any other error, and its body is not the error's text.
C11_ResponseIgnoresErrorText ==
    CallResourceReturned =>
        \A op \in DOMAIN provider :
            provider[op].err # NoError =>
                /\ Len(Sends) = 1
                /\ Sent.Body # Str(provider[op].err)
                /\ \A e \in ErrorValues :
                      LET other == CallResource(resReq,
                                                [provider EXCEPT ![op].err = e],
                                                sendErr)
                      IN  EventsOf(other.events, "send") = Sends

\* ListProjects has failed on the path projects, with a list beside the
\* error, and so has the default-project lookup on its path.
C11_Witness ==
    /\ CallResourceReturned
    /\ \/ /\ resReq.Path = PathProjects
          /\ provider.ListProjects = [list |-> Slice(<<Project1>>), err |-> ErrPermission]
          /\ Len(CallsOf(trace, "ListProjects")) = 1
       \/ /\ resReq.Path = PathGCEDefaultProject
          /\ provider.GCEDefaultProject.err # NoError
          /\ Len(CallsOf(trace, "GCEDefaultProject")) = 1
    /\ Len(EventsOf(trace, "warn")) = 1

\* time.Parse(time.RFC3339, s): the instant, in seconds since the epoch, that
\* is the wall clock s spells at the offset s spells.
ParseRFC3339(s) == s.wall - 60 * s.zoneMin

\* The instant back, in whole seconds, is less than a second away from t.
WithinASecond(t, back) ==
    \/ back = t.unix
    \/ back = t.unix + 1 /\ t.nsec > 0

\* C12: the From and To of the request compiled for a query are the RFC 3339
\* renderings of the bounds of the query's time range, and each parses back
\* to an instant less than a second away from its bound.
C12_TimeRangeRoundTrips ==
    InQueryData =>
        \A k \in Handled :
            ~Malformed(queries[k]) =>
                LET sent == CallFor(k).arg[1].TimeRange
                    tr   == queries[k].TimeRange
                IN  /\ sent.From = FormatRFC3339(tr.From)
                    /\ sent.To = FormatRFC3339(tr.To)
                    /\ WithinASecond(tr.From, ParseRFC3339(sent.From))
                    /\ WithinASecond(tr.To, ParseRFC3339(sent.To))

\* The same for the queries whose time range is in a location at a whole
\* number of minutes from UTC.
RoundTripsAtWholeMinutes ==
    InQueryData =>
        \A k \in Handled :
            (~Malformed(queries[k]) /\ queries[k].TimeRange.From.zone % 60 = 0
                                   /\ queries[k].TimeRange.To.zone % 60 = 0) =>
                LET sent == CallFor(k).arg[1].TimeRange
                    tr   == queries[k].TimeRange
                IN  /\ WithinASecond(tr.From, ParseRFC3339(sent.From))
                    /\ WithinASecond(tr.To, ParseRFC3339(sent.To))

\* The number of entries the service holds in all its pages.
RECURSIVE Held(_)
Held(pages) == IF pages = <<>> THEN 0 ELSE Len(Head(pages)) + Held(Tail(pages))

\* C13: for a query with a limit L > 0, ListLogs returns at most L entries
\* and the response of the query holds at most L frames, however many
\* entries and pages the service holds.
C13_FramesWithinLimit ==
    InQueryData =>
        \A k \in Handled :
            (~Malformed(queries[k]) /\ queries[k].MaxDataPoints > 0) =>
                /\ CallFor(k).arg[1].Limit = queries[k].MaxDataPoints
                /\ Len(CallFor(k).ret.logs) <= queries[k].MaxDataPoints
                /\ EntryIsOf(k) =>
                      Len(responses[queries[k].RefID].Frames) <= queries[k].MaxDataPoints

\* A query with limit 1 has been answered one entry, which only a service
\* holding two entries answers with, and its response holds one frame.
C13_Witness ==
    /\ QueryDataReturned
    /\ \E k \in Handled :
          /\ queries[k].MaxDataPoints = 1
          /\ ~Malformed(queries[k])
          /\ CallFor(k).ret = [logs |-> <<LogJson>>, err |-> NoError]
          /\ \A avail \in Availabilities, dflt \in EngineDefaults :
                ListLogs(CallFor(k).arg[1], avail, dflt) = CallFor(k).ret
                    => Held(avail.pages) > 1
          /\ EntryIsOf(k)
          /\ Len(responses[queries[k].RefID].Frames) = 1

\* C14: a well-formed query whose projectId is missing or empty is answered
\* an error and no frames, and no ListLogs call is made for it: no call
\* carries an empty project id.
C14_ProjectIdIsRequired ==
    InQueryData =>
        /\ \A c \in DOMAIN ListLogsCalls : ListLogsCalls[c].arg[1].ProjectID # ""
        /\ \A k \in Handled :
              ( /\ ~Malformed(queries[k])
                /\ MemberOf(queries[k], NameProjectId) = ""
                /\ EntryIsOf(k) ) =>
                    /\ responses[queries[k].RefID].Error # NoError
                    /\ responses[queries[k].RefID].Frames = <<>>

\* C15: on the path gceDefaultProject, when the lookup of the default project
\* fails, the response sent does not have status 200.
C15_FailedLookupIsReported ==
    ( /\ CallResourceReturned
      /\ resReq.Path = PathGCEDefaultProject
      /\ provider.GCEDefaultProject.err # NoError ) =>
        /\ Len(Sends) = 1
        /\ Sent.Status # 200

\* C16: a served CallResource has called sender.Send exactly once, as the
\* last thing it did, has made at most one provider or lookup call, before
\* the Send, and has returned what Send returned; CallResource is never left
\* without a response sent.
C16_SendsExactlyOnce ==
    /\ CallResourceReturned =>
          /\ Len(Sends) = 1
          /\ Len(Calls) <= 1
          /\ trace # <<>>
          /\ trace[Len(trace)].ev = "send"
          /\ \A i \in DOMAIN trace : trace[i].ev = "call" => i < Len(trace)
          /\ result.err = Sends[1].ret.err
          /\ result.err = sendErr
    /\ (handler = "CallResource") => pc = "returned"

\* CallResource has returned the error of a Send that followed a failed
\* provider call, or of the Send of the not-found response.
C16_Witness ==
    /\ CallResourceReturned
    /\ result.err # NoError
    /\ result.err = Sends[1].ret.err
    /\ \/ Len(Calls) = 1 /\ trace[1].ev = "call" /\ provider.ListProjects.err # NoError
       \/ Len(Calls) = 0 /\ Sent.Status = 404

\* C17: the requests the frontend makes (gceDefaultProject, projects,
\* logBuckets with a ProjectId, logViews with a ProjectId and a BucketId, in
\* these letter cases) each make the one discovery call of their path and are
\* not answered 404 No such path.
C17_FrontendPathsAreRouted ==
    CallResourceReturned =>
        LET Routed(op) ==
                /\ Len(Calls) = 1
                /\ Calls[1].op = op
                /\ Len(Sends) = 1
                /\ Sent.Status # 404
                /\ Sent.Body # "No such path"
        IN  /\ resReq.Path = PathGCEDefaultProject => Routed("GCEDefaultProject")
            /\ resReq.Path = PathProjects => Routed("ListProjects")
            /\ (resReq.Path = PathFrontendLogBuckets /\ Param(resReq, "ProjectId") # "")
                    => Routed("ListProjectBuckets")
            /\ ( /\ resReq.Path = PathFrontendLogViews
                 /\ Param(resReq, "ProjectId") # ""
                 /\ Param(resReq, "BucketId") # "" )
                    => Routed("ListProjectBucketViews")

\* Every request the frontend has made is pending or has been answered a
\* project id that is not empty.
LookupsReturnAProject ==
    \A r \in DOMAIN getResource :
        \/ getResource[r].state = "pending"
        \/ getResource[r].state = "resolved" /\ getResource[r].value # ""

\* The callers of getDefaultProject and ensureGCEDefaultProject, and the
\* requests made by them.
LookupCallers ==
    {c \in Callers : promises[c].fn \in {"getDefaultProject", "ensureGCEDefaultProject"}}
LookupRequests == SelectSeq(getResource, LAMBDA r : r.by \in LookupCallers)

\* C18: under gce authentication, while the lookup returns a project id that
\* is not empty, the calls of getDefaultProject and ensureGCEDefaultProject
\* request the backend resource gceDefaultProject at most once between them,
\* however they interleave, and such a call made after the id is stored makes
\* no request and, if it is getDefaultProject, returns a stored id.
C18_DefaultProjectRequestedOnce ==
    (jsonData.authenticationType = "gce" /\ LookupsReturnAProject) =>
        /\ Len(LookupRequests) <= 1
        /\ \A c \in LookupCallers :
              (promises[c].pc = "done" /\ promises[c].seen # "") =>
                  /\ ~promises[c].requested
                  /\ promises[c].fn = "getDefaultProject" => promises[c].ret # ""

\* The part of C18 about calls made one after another: a call of
\* getDefaultProject or ensureGCEDefaultProject made after the id is stored
\* makes no request.
CallsAfterStoredMakeNoRequest ==
    \A c \in LookupCallers : promises[c].seen # "" => ~promises[c].requested

====
